---- MODULE Spec2Model ----
(***************************************************************************)
(* State-machine model of the ROV control core (JPslaugh/nabc-raspberry-pi)*)
(*                                                                         *)
(*   actuators.hpp   MotorController / ThrusterMotor / HydraulicValve      *)
(*   sensors.hpp     PressureSensor / TemperatureSensor / IMUSensor        *)
(*   safety.hpp      SafetyMonitor                                         *)
(*   ecu.hpp         ECU                                                   *)
(*   ecu_mangr.hpp   ECUManager                                            *)
(*   controlSystem.hpp  TM_ControlSystem (initialize, controlLoop, stop)   *)
(*   main.cpp        main, signalHandler                                   *)
(*                                                                         *)
(* Every C++ double is a fixed-point integer counted in 1/Unit; Unit is    *)
(* divisible by 1..10 and by 2, so the moving average over at most ten     *)
(* readings and the gain 0.5 are exact.  A std::string is a sequence of    *)
(* tokens; the empty string is <<>>.                                       *)
(***************************************************************************)
EXTENDS Integers, Sequences, FiniteSets, TLC

VARIABLES
    act,              \* actuator objects: name -> MotorController / HydraulicValve
    sens,             \* sensor objects: name -> Pressure/Temperature/IMU sensor
    safetyMonitor_,   \* the SafetyMonitor object
    last,             \* the last call made on a component and what it returned
    ecuManager_,      \* the ECUManager object and the ECU objects it holds
    now,              \* the clocks' now(), in milliseconds
    pc,               \* where main() is
    g_system,         \* main.cpp's g_system: TRUE once it points to the system
    logger_,          \* the DataLogger object, Null until initialize() makes it
    systemRunning_,
    sensors_,         \* TM_ControlSystem's vectors: names in insertion order
    actuators_,
    commInterfaces_,
    comm,             \* communication objects: name -> Serial/Modbus/Telemetry
    controlState_,
    lastTime,         \* controlLoop()'s local lastTime
    counter,          \* controlLoop()'s static int counter
    telemetry,        \* the contents of ./telemetry.json
    shutdownLog,      \* the shutdown steps stop() has run, in order
    tickLog           \* the steps the latest tick has run, in order

compVars == <<act, sens, safetyMonitor_>>
ecuVars == <<ecuManager_, now>>
ctlVars == <<pc, g_system, logger_, systemRunning_, sensors_, actuators_,
             commInterfaces_, comm, controlState_, lastTime, counter,
             shutdownLog, tickLog>>
sysVars == <<ctlVars, telemetry>>

\* a null smart pointer
Null == [kind |-> "nullptr"]

Unit == 7 * 8 * 9 * 10
FP(x) == x * Unit

(***************************************************************************)
(* actuators.hpp                                                           *)
(***************************************************************************)

\* std::clamp(v, lo, hi)
clamp(v, lo, hi) == IF v < lo THEN lo ELSE IF hi < v THEN hi ELSE v

\* MotorController::MotorController(name, minLim, maxLim)
MotorController(minLim, maxLim) ==
    [kind |-> "MotorController",
     commandValue_ |-> 0, feedbackValue_ |-> 0,
     minLimit_ |-> minLim, maxLimit_ |-> maxLim,
     interlockActive_ |-> FALSE, enabled_ |-> FALSE]

\* ThrusterMotor::ThrusterMotor(name): -100% to +100%
ThrusterMotor == MotorController(FP(-100), FP(100))

\* HydraulicValve::HydraulicValve(name)
HydraulicValve ==
    [kind |-> "HydraulicValve",
     position_ |-> 0, targetPosition_ |-> 0, interlockActive_ |-> FALSE]

\* 5% per update
ValveRate == 5

MotorController_initialize(a) == [a EXCEPT !.enabled_ = TRUE, !.commandValue_ = 0]

MotorController_update(a) ==
    IF ~a.enabled_ \/ a.interlockActive_
    THEN [a EXCEPT !.commandValue_ = 0]
    ELSE a

MotorController_updateResult(a) == ~(~a.enabled_ \/ a.interlockActive_)

MotorController_shutdown(a) == [a EXCEPT !.commandValue_ = 0, !.enabled_ = FALSE]

\* a setCommand that forgets std::clamp
MotorController_setCommand_unclamped(a, value) ==
    IF ~a.enabled_ \/ a.interlockActive_
    THEN a
    ELSE [a EXCEPT !.commandValue_ = value]

MotorController_setCommand(a, value) ==
    IF ~a.enabled_ \/ a.interlockActive_
    THEN a
    ELSE [a EXCEPT !.commandValue_ = clamp(value, a.minLimit_, a.maxLimit_)]

MotorController_setCommandResult(a, value) == ~(~a.enabled_ \/ a.interlockActive_)

MotorController_setInterlock(a, active) == [a EXCEPT !.interlockActive_ = active]

HydraulicValve_initialize(a) == [a EXCEPT !.position_ = 0]

\* an update() that closes an interlocked valve at once
HydraulicValve_update_closesOnInterlock(a) ==
    IF a.interlockActive_
    THEN [a EXCEPT !.targetPosition_ = 0, !.position_ = 0]
    ELSE LET error == a.targetPosition_ - a.position_
         IN  [a EXCEPT !.position_ = a.position_
                                     + clamp(error, FP(-ValveRate), FP(ValveRate))]

\* an update() without the rate limit: the valve jumps to its target
HydraulicValve_update_unlimited(a) ==
    IF a.interlockActive_
    THEN [a EXCEPT !.targetPosition_ = 0]
    ELSE [a EXCEPT !.position_ = a.targetPosition_]

HydraulicValve_update(a) ==
    IF a.interlockActive_
    THEN [a EXCEPT !.targetPosition_ = 0]
    ELSE LET error == a.targetPosition_ - a.position_
         IN  [a EXCEPT !.position_ = a.position_
                                     + clamp(error, FP(-ValveRate), FP(ValveRate))]

HydraulicValve_updateResult(a) == ~a.interlockActive_

HydraulicValve_shutdown(a) == [a EXCEPT !.targetPosition_ = 0, !.position_ = 0]

HydraulicValve_setCommand(a, value) ==
    IF a.interlockActive_
    THEN a
    ELSE [a EXCEPT !.targetPosition_ = clamp(value, FP(0), FP(100))]

HydraulicValve_setCommandResult(a, value) == ~a.interlockActive_

HydraulicValve_setInterlock(a, active) == [a EXCEPT !.interlockActive_ = active]

\* IActuator virtual dispatch
IsMotor(a) == a.kind = "MotorController"

Actuator_initialize(a) ==
    IF IsMotor(a) THEN MotorController_initialize(a) ELSE HydraulicValve_initialize(a)

Actuator_update(a) ==
    IF IsMotor(a) THEN MotorController_update(a) ELSE HydraulicValve_update(a)

Actuator_updateResult(a) ==
    IF IsMotor(a) THEN MotorController_updateResult(a) ELSE HydraulicValve_updateResult(a)

Actuator_shutdown(a) ==
    IF IsMotor(a) THEN MotorController_shutdown(a) ELSE HydraulicValve_shutdown(a)

Actuator_setCommand(a, value) ==
    IF IsMotor(a) THEN MotorController_setCommand(a, value)
                  ELSE HydraulicValve_setCommand(a, value)

Actuator_setCommandResult(a, value) ==
    IF IsMotor(a) THEN MotorController_setCommandResult(a, value)
                  ELSE HydraulicValve_setCommandResult(a, value)

Actuator_setInterlock(a, active) ==
    IF IsMotor(a) THEN MotorController_setInterlock(a, active)
                  ELSE HydraulicValve_setInterlock(a, active)

getCommand(a) == IF IsMotor(a) THEN a.commandValue_ ELSE a.targetPosition_
getFeedback(a) == IF IsMotor(a) THEN a.feedbackValue_ ELSE a.position_
hasInterlock(a) == a.interlockActive_

\* the limits an actuator clamps to
ActuatorMin(a) == IF IsMotor(a) THEN a.minLimit_ ELSE FP(0)
ActuatorMax(a) == IF IsMotor(a) THEN a.maxLimit_ ELSE FP(100)
\* MotorController has an enable flag; HydraulicValve has none
ActuatorEnabled(a) == IF IsMotor(a) THEN a.enabled_ ELSE TRUE

(***************************************************************************)
(* sensors.hpp                                                             *)
(***************************************************************************)

\* PressureSensor::BUFFER_SIZE
BUFFER_SIZE == 10

\* PressureSensor::PressureSensor(name)
PressureSensor ==
    [kind |-> "PressureSensor", currentValue_ |-> 0, calibrationOffset_ |-> 0,
     healthy_ |-> FALSE, historyBuffer_ |-> <<>>]

\* TemperatureSensor::TemperatureSensor(name)
TemperatureSensor ==
    [kind |-> "TemperatureSensor", currentValue_ |-> 0, healthy_ |-> FALSE]

\* IMUSensor::IMUSensor(name): data_ = {0, 0, 0, 0, 0, 0}
IMUSensor ==
    [kind |-> "IMUSensor",
     data_ |-> [roll |-> 0, pitch |-> 0, yaw |-> 0,
                accelX |-> 0, accelY |-> 0, accelZ |-> 0],
     healthy_ |-> FALSE]

Sensor_initialize(s) == [s EXCEPT !.healthy_ = TRUE]

Sensor_shutdown(s) == [s EXCEPT !.healthy_ = FALSE]

\* update(): "Read from hardware (placeholder)": hw is what the ADC/I2C read
\* delivers into the sensor's current value; the object keeps it until the next
\* update().
Sensor_update(s, hw) ==
    IF s.kind = "IMUSensor" THEN [s EXCEPT !.data_.yaw = hw]
                            ELSE [s EXCEPT !.currentValue_ = hw]

Sensor_updateResult(s) == s.healthy_

\* std::accumulate(begin, end, 0.0)
RECURSIVE accumulate(_)
accumulate(q) == IF q = <<>> THEN 0 ELSE Head(q) + accumulate(Tail(q))

\* PressureSensor::readValue(): the state it leaves (a reading is pushed)
PressureSensor_readValueState(s) ==
    LET popped == IF Len(s.historyBuffer_) >= BUFFER_SIZE
                  THEN Tail(s.historyBuffer_) ELSE s.historyBuffer_
    IN  [s EXCEPT !.historyBuffer_ =
                      Append(popped, s.currentValue_ + s.calibrationOffset_)]

\* PressureSensor::readValue(): the moving average it returns
PressureSensor_readValue(s) ==
    LET h == PressureSensor_readValueState(s).historyBuffer_
    IN  accumulate(h) \div Len(h)

\* ISensor::readValue() dispatch: the returned value
Sensor_readValue(s) ==
    IF s.kind = "PressureSensor" THEN PressureSensor_readValue(s)
    ELSE IF s.kind = "TemperatureSensor" THEN s.currentValue_
    ELSE s.data_.yaw

\* ISensor::readValue() dispatch: the state after the call
Sensor_readValueState(s) ==
    IF s.kind = "PressureSensor" THEN PressureSensor_readValueState(s) ELSE s

isHealthy(s) == s.healthy_

(***************************************************************************)
(* safety.hpp                                                              *)
(***************************************************************************)

Abs(x) == IF x < 0 THEN -x ELSE x

\* a non-negative value counted in 1/Unit, in millionths, rounded to nearest
Micro(a) ==
    LET r  == a % Unit
        m1 == (r * 1000) \div Unit
        r1 == (r * 1000) % Unit
        m2 == (r1 * 1000 + Unit \div 2) \div Unit
    IN  (a \div Unit) * 1000000 + m1 * 1000 + m2

\* six digits, zero-filled
Pad6(n) ==
    (IF n < 10 THEN "00000" ELSE IF n < 100 THEN "0000" ELSE IF n < 1000 THEN "000"
     ELSE IF n < 10000 THEN "00" ELSE IF n < 100000 THEN "0" ELSE "") \o ToString(n)

\* std::to_string(double): printf "%f", six decimals.  A std::string is a
\* sequence of chunks of characters.
to_string(value) ==
    LET m == Micro(Abs(value))
    IN  <<(IF value < 0 THEN "-" ELSE "")
              \o ToString(m \div 1000000) \o "." \o Pad6(m % 1000000)>>

\* std::ostream << double: six significant digits; the result in millionths
\* (values below 0.1 keep six decimals)
ostream_double(value) ==
    LET m == Micro(Abs(value))
        q == IF m >= 100000000 THEN 1000 ELSE IF m >= 10000000 THEN 100
             ELSE IF m >= 1000000 THEN 10 ELSE 1
        rounded == ((m + q \div 2) \div q) * q
    IN  IF value < 0 THEN -rounded ELSE rounded

\* SafetyMonitor::SafetyMonitor()
SafetyMonitor ==
    [limits_ |-> <<>>, controlledActuators_ |-> <<>>,
     systemSafe_ |-> TRUE, lastViolation_ |-> <<>>]

\* SafetyMonitor::initialize()
SafetyMonitor_initialize(m) == [m EXCEPT !.systemSafe_ = TRUE]

\* SafetyMonitor::addLimit(name, getValue, minVal, maxVal)
SafetyMonitor_addLimit(m, name, g, minVal, maxVal) ==
    [m EXCEPT !.limits_ = Append(@, [name |-> name, getValue |-> g,
                                     minValue |-> minVal, maxValue |-> maxVal,
                                     isActive |-> FALSE])]

\* SafetyMonitor::addActuator(actuator)
SafetyMonitor_addActuator(m, a) ==
    [m EXCEPT !.controlledActuators_ = Append(@, a)]

\* what a call of a limit's std::function yields: a value, or an exception
\* (the accessor fails; an empty std::function throws bad_function_call)
Returns(v) == [kind |-> "value", value |-> v]
Throws == [kind |-> "throw"]

\* limit.getValue(): a std::function.  main.cpp binds it to a sensor's
\* readValue(); any other callable yields what the caller supplies (outcome).
getValue(g, w, outcome) ==
    IF g.kind = "sensor"
    THEN [threw |-> FALSE,
          value |-> Sensor_readValue(w.sens[g.id]),
          w |-> [w EXCEPT !.sens[g.id] = Sensor_readValueState(w.sens[g.id])]]
    ELSE IF outcome.kind = "throw"
    THEN [threw |-> TRUE, value |-> 0, w |-> w]
    ELSE [threw |-> FALSE, value |-> outcome.value, w |-> w]

\* a "Trigger interlocks" that also latches each actuator's interlock
TriggerInterlocks_latching(actuators, ids) ==
    [n \in DOMAIN actuators |->
        IF \E i \in DOMAIN ids : ids[i] = n
        THEN Actuator_setInterlock(Actuator_setCommand(actuators[n], 0), TRUE)
        ELSE actuators[n]]

\* "Trigger interlocks": for (actuator : controlledActuators_) setCommand(0.0)
RECURSIVE TriggerInterlocks(_, _)
TriggerInterlocks(actuators, ids) ==
    IF ids = <<>> THEN actuators
    ELSE TriggerInterlocks(
             [actuators EXCEPT ![Head(ids)] = Actuator_setCommand(@, 0)],
             Tail(ids))

\* a violation branch that forgets to write lastViolation_
SafetyMonitor_violation_noText(w, i, value) ==
    [w EXCEPT !.mon.systemSafe_ = FALSE,
              !.mon.limits_[i].isActive = TRUE,
              !.act = TriggerInterlocks(w.act, w.mon.controlledActuators_)]

\* the body of the if in SafetyMonitor::update(): the violation branch
SafetyMonitor_violation(w, i, value) ==
    [w EXCEPT !.mon.systemSafe_ = FALSE,
              !.mon.lastViolation_ =
                  w.mon.limits_[i].name \o <<" out of range: ">> \o to_string(value),
              !.mon.limits_[i].isActive = TRUE,
              !.act = TriggerInterlocks(w.act, w.mon.controlledActuators_)]

\* a loop that forgets the break after a violation
RECURSIVE SafetyMonitor_updateLoop_noBreak(_, _, _)
SafetyMonitor_updateLoop_noBreak(w, i, fnvals) ==
    IF i > Len(w.mon.limits_) THEN w
    ELSE LET limit == w.mon.limits_[i]
             got   == getValue(limit.getValue, w, fnvals[i])
             w1    == [got.w EXCEPT !.sampled = Append(@, i)]
             value == got.value
         IN  IF got.threw
             THEN [w1 EXCEPT !.threw = TRUE]
             ELSE SafetyMonitor_updateLoop_noBreak(
                      IF value < limit.minValue \/ value > limit.maxValue
                      THEN SafetyMonitor_violation(w1, i, value)
                      ELSE [w1 EXCEPT !.mon.limits_[i].isActive = FALSE],
                      i + 1, fnvals)

\* the for loop of SafetyMonitor::update(), from limit i on; w is the world
\* [mon, act, sens] the loop touches, with the limits sampled so far and
\* whether an exception left the call; fnvals are the callables' outcomes.
\* There is no try block: an exception ends the call where it is raised.
RECURSIVE SafetyMonitor_updateLoop(_, _, _)
SafetyMonitor_updateLoop(w, i, fnvals) ==
    IF i > Len(w.mon.limits_) THEN w
    ELSE LET limit == w.mon.limits_[i]
             got   == getValue(limit.getValue, w, fnvals[i])
             w1    == [got.w EXCEPT !.sampled = Append(@, i)]
             value == got.value
         IN  IF got.threw
             THEN [w1 EXCEPT !.threw = TRUE]
             ELSE IF value < limit.minValue \/ value > limit.maxValue
             THEN SafetyMonitor_violation(w1, i, value)
             ELSE SafetyMonitor_updateLoop(
                      [w1 EXCEPT !.mon.limits_[i].isActive = FALSE],
                      i + 1, fnvals)

\* an update() that forgets systemSafe_ = true
SafetyMonitor_update_noReset(w, fnvals) == SafetyMonitor_updateLoop(w, 1, fnvals)

\* SafetyMonitor::update()
SafetyMonitor_update(w, fnvals) ==
    SafetyMonitor_updateLoop([w EXCEPT !.mon.systemSafe_ = TRUE], 1, fnvals)

\* SafetyMonitor::shutdown(): "Safe shutdown of all actuators"
RECURSIVE SafetyMonitor_shutdown(_, _)
SafetyMonitor_shutdown(actuators, ids) ==
    IF ids = <<>> THEN actuators
    ELSE SafetyMonitor_shutdown(
             [actuators EXCEPT ![Head(ids)] = Actuator_shutdown(@)], Tail(ids))

isSystemSafe(m) == m.systemSafe_
getLastViolation(m) == m.lastViolation_

\* the objects SafetyMonitor::update() can touch
World ==
    [mon |-> safetyMonitor_, act |-> act, sens |-> sens,
     sampled |-> <<>>, threw |-> FALSE]

(***************************************************************************)
(* ecu.hpp                                                                 *)
(***************************************************************************)

\* std::chrono::duration_cast<std::chrono::seconds>: truncates toward zero
duration_cast_seconds(ms) ==
    IF ms >= 0 THEN ms \div 1000 ELSE -((-ms) \div 1000)

\* the watchdog limit in ECU::update(): elapsed.count() > 5
WatchdogSeconds == 5

\* ECU::ECU(ecuID, name, type), built at time t
ECU(ecuID, type, t) ==
    [ecuID_ |-> ecuID, type_ |-> type, status_ |-> "OFFLINE",
     lastCommunication_ |-> t,
     cpuUsagePercent_ |-> 0, memoryUsagePercent_ |-> 0, temperatureCelsius_ |-> 0,
     communicationErrors_ |-> 0, watchdogActive_ |-> FALSE]

\* ECU::establishCommunication(): "Placeholder", returns true
establishCommunication == TRUE

\* what establishCommunication() can answer once it talks to a link: the
\* placeholder's answer, and the failure ECU::initialize() provides for
LinkOutcomes == {establishCommunication, FALSE}

\* ECU::initialize(); commSuccess is the answer of establishCommunication().
\* status_ passes through INITIALIZING whatever it was before.
ECU_initialize(e, commSuccess) ==
    IF commSuccess
    THEN [e EXCEPT !.communicationErrors_ = 0, !.status_ = "ONLINE",
                   !.watchdogActive_ = TRUE]
    ELSE [e EXCEPT !.communicationErrors_ = 0, !.status_ = "FAULT"]

ECU_initializeResult(e, commSuccess) == commSuccess

\* ECU::updateHealthMetrics(): "Simulate some values"
updateHealthMetrics(e) ==
    [e EXCEPT !.cpuUsagePercent_ = FP(25), !.memoryUsagePercent_ = FP(40),
              !.temperatureCelsius_ = FP(45)]

\* the watchdog test of ECU::update()
WatchdogExpired(e, t) ==
    duration_cast_seconds(t - e.lastCommunication_) > WatchdogSeconds

\* an update() that counts an error on every tick past the watchdog limit
ECU_update_countsEveryExpiry(e, t) ==
    updateHealthMetrics(
        IF WatchdogExpired(e, t)
        THEN [e EXCEPT !.status_ = IF e.status_ = "ONLINE" THEN "DEGRADED"
                                                           ELSE e.status_,
                       !.communicationErrors_ = e.communicationErrors_ + 1]
        ELSE e)

\* ECU::update() at time t
ECU_update(e, t) ==
    updateHealthMetrics(
        IF WatchdogExpired(e, t) /\ e.status_ = "ONLINE"
        THEN [e EXCEPT !.status_ = "DEGRADED",
                       !.communicationErrors_ = e.communicationErrors_ + 1]
        ELSE e)

ECU_updateResult(e, t) ==
    ECU_update(e, t).status_ \in {"ONLINE", "DEGRADED"}

\* ECU::shutdown()
ECU_shutdown(e) == [e EXCEPT !.status_ = "OFFLINE", !.watchdogActive_ = FALSE]

\* an updateCommunicationTimestamp() that brings any ECU back online
ECU_updateCommunicationTimestamp_anyStatus(e, t) ==
    [e EXCEPT !.lastCommunication_ = t, !.status_ = "ONLINE"]

\* ECU::updateCommunicationTimestamp() at time t
ECU_updateCommunicationTimestamp(e, t) ==
    [e EXCEPT !.lastCommunication_ = t,
              !.status_ = IF e.status_ = "DEGRADED" THEN "ONLINE" ELSE e.status_]

getECUStatus(e) == e.status_

(***************************************************************************)
(* ecu_mangr.hpp                                                           *)
(***************************************************************************)

\* ECUManager::ECUManager(systemName, logger)
ECUManager == [ecus_ |-> <<>>, allECUsOnline_ |-> FALSE]

\* ECUManager::updateSystemStatus()
updateSystemStatus(m) ==
    [m EXCEPT !.allECUsOnline_ =
                  \A id \in DOMAIN m.ecus_ : getECUStatus(m.ecus_[id]) = "ONLINE"]

\* ECUManager::addECU(ecu): ecus_[ecu->getECUID()] = ecu
ECUManager_addECU(m, e) ==
    [m EXCEPT !.ecus_ = [id \in DOMAIN m.ecus_ \cup {e.ecuID_} |->
                             IF id = e.ecuID_ THEN e ELSE m.ecus_[id]]]

\* the ECUs of TM_ControlSystem::setupECUs(), in the order they are added
SetupECUs ==
    <<[id |-> "ECU01", type |-> "MAIN_CONTROLLER"],
      [id |-> "ECU02", type |-> "SENSOR_NODE"],
      [id |-> "ECU03", type |-> "ACTUATOR_NODE"],
      [id |-> "ECU04", type |-> "VFD_CONTROLLER"],
      [id |-> "ECU05", type |-> "VFD_CONTROLLER"],
      [id |-> "ECU06", type |-> "HYDRAULIC_CONTROLLER"],
      [id |-> "ECU07", type |-> "HYDRAULIC_CONTROLLER"]>>

\* the place of an id in the key order of std::map<std::string, ...> ecus_
KeyOrder(id) == CHOOSE i \in 1..Len(SetupECUs) : SetupECUs[i].id = id

\* an initialize() that returns at the first ECU that fails
ECUManager_initialize_earlyExit(m, link) ==
    updateSystemStatus(
        [m EXCEPT !.ecus_ = [id \in DOMAIN m.ecus_ |->
            IF \E f \in DOMAIN m.ecus_ : ~link[f] /\ KeyOrder(f) < KeyOrder(id)
            THEN m.ecus_[id]
            ELSE ECU_initialize(m.ecus_[id], link[id])]])

\* ECUManager::initialize(); link[id] is what the ECU's link answers
ECUManager_initialize(m, link) ==
    updateSystemStatus(
        [m EXCEPT !.ecus_ = [id \in DOMAIN m.ecus_ |->
                                 ECU_initialize(m.ecus_[id], link[id])]])

ECUManager_initializeResult(m, link) ==
    \A id \in DOMAIN m.ecus_ : ECU_initializeResult(m.ecus_[id], link[id])

\* ECUManager::update() at time t
ECUManager_update(m, t) ==
    updateSystemStatus(
        [m EXCEPT !.ecus_ = [id \in DOMAIN m.ecus_ |-> ECU_update(m.ecus_[id], t)]])

ECUManager_updateResult(m, t) ==
    \A id \in DOMAIN m.ecus_ : ECU_updateResult(m.ecus_[id], t)

\* ECUManager::shutdown()
ECUManager_shutdown(m) ==
    [m EXCEPT !.ecus_ = [id \in DOMAIN m.ecus_ |-> ECU_shutdown(m.ecus_[id])],
              !.allECUsOnline_ = FALSE]

areAllECUsOnline(m) == m.allECUsOnline_

\* the keys of ecus_ from place i on, in the iteration order of the std::map
RECURSIVE KeysFrom(_, _)
KeysFrom(m, i) ==
    IF i > Len(SetupECUs) THEN <<>>
    ELSE (IF SetupECUs[i].id \in DOMAIN m.ecus_ THEN <<SetupECUs[i].id>> ELSE <<>>)
             \o KeysFrom(m, i + 1)

\* ECUManager::getECUsByType(type): for (auto& [id, ecu] : ecus_) push_back
getECUsByType(m, type) ==
    LET OfType(id) == m.ecus_[id].type_ = type
        ids == SelectSeq(KeysFrom(m, 1), OfType)
    IN  [i \in 1..Len(ids) |-> m.ecus_[ids[i]]]

getOnlineECUCount(m) ==
    Cardinality({id \in DOMAIN m.ecus_ : getECUStatus(m.ecus_[id]) = "ONLINE"})

(***************************************************************************)
(* comms.hpp, data_logger.hpp                                              *)
(***************************************************************************)

SerialInterface ==
    [kind |-> "SerialInterface", connected_ |-> FALSE,
     txQueue_ |-> <<>>, rxQueue_ |-> <<>>]

ModbusInterface == [kind |-> "ModbusInterface", connected_ |-> FALSE]

TelemetryUplink == [kind |-> "TelemetryUplink", connected_ |-> FALSE]

Comm_initialize(c) == [c EXCEPT !.connected_ = TRUE]
Comm_initializeResult(c) == TRUE
\* an update() that transmits, and so empties, the outbound queue
Comm_update_flushes(c, arrived) ==
    IF c.kind = "SerialInterface"
    THEN [c EXCEPT !.rxQueue_ = @ \o arrived, !.txQueue_ = <<>>]
    ELSE c

\* update(): "Process queues" (placeholder): arrived is what the serial port
\* has delivered since the last call; only SerialInterface has an rxQueue_
Comm_update(c, arrived) ==
    IF c.kind = "SerialInterface" THEN [c EXCEPT !.rxQueue_ = @ \o arrived] ELSE c

Comm_updateResult(c) == c.connected_
Comm_shutdown(c) == [c EXCEPT !.connected_ = FALSE]

\* send(data): only SerialInterface keeps what it is given
Comm_send(c, data) ==
    IF c.kind = "SerialInterface" /\ c.connected_
    THEN [c EXCEPT !.txQueue_ = Append(@, data)]
    ELSE c

Comm_sendResult(c, data) == c.connected_

\* receive(): what it returns, and the state it leaves
Comm_receive(c) ==
    IF c.kind = "SerialInterface" /\ c.rxQueue_ # <<>> THEN Head(c.rxQueue_) ELSE <<>>

Comm_receiveState(c) ==
    IF c.kind = "SerialInterface" /\ c.rxQueue_ # <<>>
    THEN [c EXCEPT !.rxQueue_ = Tail(@)]
    ELSE c

\* DataLogger::DataLogger(filename)
DataLogger == [kind |-> "DataLogger", isLogging_ |-> FALSE]

\* DataLogger::initialize(); opened: whether logFile_.open() succeeded
DataLogger_initialize(l, opened) == IF opened THEN [l EXCEPT !.isLogging_ = TRUE] ELSE l

DataLogger_shutdown(l) == [l EXCEPT !.isLogging_ = FALSE]

(***************************************************************************)
(* controlSystem.hpp                                                       *)
(***************************************************************************)

\* loopPeriod_(100), in milliseconds
loopPeriod_ == 100

\* controlState_ = {0.0, 0.0, false, false}
ControlState ==
    [depthSetpoint |-> 0, headingSetpoint |-> 0,
     autoDepthControl |-> FALSE, autoHeadingControl |-> FALSE]

\* the elements of a vector
Range(q) == {q[i] : i \in 1..Len(q)}

\* TM_ControlSystem::setupECUs(): the ECUs are built and added one by one
RECURSIVE setupECUs(_, _, _)
setupECUs(m, table, t) ==
    IF table = <<>> THEN m
    ELSE setupECUs(ECUManager_addECU(m, ECU(Head(table).id, Head(table).type, t)),
                   Tail(table), t)

\* for (actuator : actuators_) safetyMonitor_->addActuator(actuator)
RECURSIVE addActuators(_, _)
addActuators(m, names) ==
    IF names = <<>> THEN m
    ELSE addActuators(SafetyMonitor_addActuator(m, Head(names)), Tail(names))

\* step 1 of controlLoop(): sensor->update(); sensor->readValue()
ReadAllSensors(objs, names, hw) ==
    [n \in DOMAIN objs |->
        IF n \in Range(names)
        THEN Sensor_readValueState(Sensor_update(objs[n], hw[n]))
        ELSE objs[n]]

\* TM_ControlSystem::runControlAlgorithms() on [sens, act]
runControlAlgorithms(cs, w, sensorNames, actuatorNames) ==
    IF cs.autoDepthControl /\ sensorNames # <<>>
    THEN LET s0            == sensorNames[1]
             currentDepth  == Sensor_readValue(w.sens[s0])
             error         == cs.depthSetpoint - currentDepth
             thrustCommand == error \div 2
             w1 == [w EXCEPT !.sens[s0] = Sensor_readValueState(@)]
         IN  IF actuatorNames # <<>>
             THEN [w1 EXCEPT !.act[actuatorNames[1]] =
                                 Actuator_setCommand(@, thrustCommand)]
             ELSE w1
    ELSE w

\* TM_ControlSystem::buildTelemetryPacket(): an empty packet
buildTelemetryPacket == <<>>

\* TM_ControlSystem::processCommunication(comm): one receive(), one send()
processCommunication(c) == Comm_send(Comm_receiveState(c), buildTelemetryPacket)

\* the sensors whose status step 1 of controlLoop() logs: those for which
\* ++counter % 10 == 0, if the logger is logging
logComponentStatus(count, names, logger) ==
    IF logger.isLogging_
    THEN {names[i] : i \in {k \in 1..Len(names) : (count + k) % 10 = 0}}
    ELSE {}

\* an updateECUCommunicationStatus() that observes every registered ECU
updateECUCommunicationStatus_all(m, links, t) ==
    [m EXCEPT !.ecus_ = [id \in DOMAIN m.ecus_ |->
                            ECU_updateCommunicationTimestamp(m.ecus_[id], t)]]

\* TM_ControlSystem::updateECUCommunicationStatus() at time t
updateECUCommunicationStatus(m, links, t) ==
    LET observe(mm, id, cond) ==
            IF id \in DOMAIN mm.ecus_ /\ cond
            THEN [mm EXCEPT !.ecus_[id] = ECU_updateCommunicationTimestamp(@, t)]
            ELSE mm
    IN  observe(observe(m, "ECU02", links # <<>>), "ECU03", Len(links) > 1)

\* TM_ControlSystem::getIsoTimestamp(): whole seconds and the milliseconds
getIsoTimestamp(t) == [sec |-> t \div 1000, ms |-> t % 1000]

\* one character of jsonEscape(); a chunk is one special character or a run of
\* ordinary ones
jsonEscapeChunk(c) ==
    CASE c = "\\" -> "\\\\"
      [] c = "\"" -> "\\\""
      [] c = "\n" -> "\\n"
      [] c = "\r" -> "\\r"
      [] c = "\t" -> "\\t"
      [] OTHER -> c

\* TM_ControlSystem::jsonEscape(input)
jsonEscape(input) == [i \in 1..Len(input) |-> jsonEscapeChunk(input[i])]

getUnits(s) ==
    IF s.kind = "PressureSensor" THEN "PSI"
    ELSE IF s.kind = "TemperatureSensor" THEN "°C" ELSE "degrees"

\* one element of the "sensors" array; value is what readValue() returned
SensorRow(n, s, value) ==
    LET row == [name |-> jsonEscape(<<n>>), value |-> ostream_double(value),
                units |-> jsonEscape(<<getUnits(s)>>), healthy |-> isHealthy(s)]
    IN  IF s.kind = "IMUSensor"
        THEN [name |-> row.name, value |-> row.value, units |-> row.units,
              healthy |-> row.healthy,
              imu |-> [f \in DOMAIN s.data_ |-> ostream_double(s.data_[f])]]
        ELSE row

\* the sensors loop of writeTelemetrySnapshot(): readValue() is called again
RECURSIVE SnapshotSensors(_, _, _)
SnapshotSensors(names, objs, rows) ==
    IF names = <<>> THEN [rows |-> rows, sens |-> objs]
    ELSE LET n == Head(names)
         IN  SnapshotSensors(
                 Tail(names),
                 [objs EXCEPT ![n] = Sensor_readValueState(@)],
                 Append(rows, SensorRow(n, objs[n], Sensor_readValue(objs[n]))))

\* one element of the "actuators" array
ActuatorRow(n, a) ==
    [name |-> jsonEscape(<<n>>), command |-> ostream_double(getCommand(a)),
     feedback |-> ostream_double(getFeedback(a)), interlock |-> hasInterlock(a)]

\* no ./telemetry.json has been written
NoFile == [kind |-> "nofile"]

\* ./telemetry.json as std::ofstream(path, std::ios::trunc) leaves it: no bytes
EmptyFile == [kind |-> "empty"]

\* TM_ControlSystem::writeTelemetrySnapshot() once the file is open: the text
\* written, field by field, and the sensors after their readValue()
writeTelemetrySnapshot(mon, cs, sensorNames, objs, actuatorNames, acts, t) ==
    LET ss == SnapshotSensors(sensorNames, objs, <<>>)
    IN  [file |->
            [timestamp |-> getIsoTimestamp(t),
             system |->
                 [safe |-> mon # Null /\ isSystemSafe(mon),
                  violation |-> jsonEscape(IF mon # Null THEN getLastViolation(mon)
                                                         ELSE <<>>)],
             control |->
                 [depthSetpoint |-> ostream_double(cs.depthSetpoint),
                  headingSetpoint |-> ostream_double(cs.headingSetpoint),
                  autoDepth |-> cs.autoDepthControl,
                  autoHeading |-> cs.autoHeadingControl],
             sensors |-> ss.rows,
             actuators |-> [i \in 1..Len(actuatorNames) |->
                               ActuatorRow(actuatorNames[i], acts[actuatorNames[i]])]],
         sens |-> ss.sens]

\* TM_ControlSystem::stop() with a logger: every object after the call
stop(w) ==
    LET acts1 == [n \in DOMAIN w.act |->
           IF n \in Range(w.actuators_) THEN Actuator_shutdown(w.act[n]) ELSE w.act[n]]
    IN  [ecuManager_ |-> IF w.ecuManager_ # Null
                         THEN ECUManager_shutdown(w.ecuManager_) ELSE w.ecuManager_,
         act |-> SafetyMonitor_shutdown(acts1, w.mon.controlledActuators_),
         sens |-> [n \in DOMAIN w.sens |->
           IF n \in Range(w.sensors_) THEN Sensor_shutdown(w.sens[n]) ELSE w.sens[n]],
         comm |-> [n \in DOMAIN w.comm |->
           IF n \in Range(w.commInterfaces_) THEN Comm_shutdown(w.comm[n]) ELSE w.comm[n]]]

\* the steps of stop(), in the order of its statements
stopSteps(m) ==
    (IF m # Null THEN <<"ecus">> ELSE <<>>)
        \o <<"actuators", "sensors", "comms", "safety", "logger">>

\* the steps of one tick of controlLoop(), in the order of its statements
TickOrder ==
    <<"ecus", "sensors", "safety", "control", "actuators", "comms", "observe",
      "telemetry">>

vars == <<compVars, last, ecuVars, sysVars>>

(***************************************************************************)
(* The actuator and SafetyMonitor interfaces called in any order           *)
(***************************************************************************)

MaxLimits == 2

\* a MotorController may be built with any limits; ThrusterMotor's are -100..100
MotorLimits == {<<FP(-100), FP(100)>>, <<FP(10), FP(100)>>}
CmdInputs == {FP(-150), FP(0), FP(52), FP(150)}
SafetyCmdInputs == {FP(0), FP(5)}
SampleValues == {FP(-10), FP(50), FP(120)}
SampleOutcomes == {Returns(v) : v \in SampleValues} \cup {Throws}
\* the limits main.cpp registers, bound here to arbitrary callables
LimitConfigs ==
    {[name |-> <<"MaxDepth">>, min |-> FP(0), max |-> FP(100)],
     [name |-> <<"MaxTemp">>, min |-> FP(-5), max |-> FP(50)]}
\* a limit whose bounds are the wrong way round
InvertedLimit == [name |-> <<"Inverted">>, min |-> FP(100), max |-> FP(0)]
Callable == [kind |-> "fn"]

NoCall == [op |-> "none"]

\* no ECUManager exists
InitNoECUs == ecuManager_ = Null /\ now = 0

\* no TM_ControlSystem exists
InitNoSystem ==
    /\ pc = "none" /\ g_system = FALSE /\ logger_ = Null /\ systemRunning_ = FALSE
    /\ sensors_ = <<>> /\ actuators_ = <<>> /\ commInterfaces_ = <<>> /\ comm = <<>>
    /\ controlState_ = ControlState /\ lastTime = 0 /\ counter = 0
    /\ telemetry = NoFile /\ shutdownLog = <<>> /\ tickLog = <<>>

\* no actuator, sensor or limit exists
InitNoComponents == act = <<>> /\ sens = <<>> /\ safetyMonitor_ = SafetyMonitor

Call_initialize(a) ==
    /\ act' = [act EXCEPT ![a] = Actuator_initialize(@)]
    /\ last' = [op |-> "initialize", id |-> a, ret |-> TRUE]
    /\ UNCHANGED <<sens, safetyMonitor_, ecuVars, sysVars>>

Call_update(a) ==
    /\ act' = [act EXCEPT ![a] = Actuator_update(@)]
    /\ last' = [op |-> "update", id |-> a, ret |-> Actuator_updateResult(act[a])]
    /\ UNCHANGED <<sens, safetyMonitor_, ecuVars, sysVars>>

Call_shutdown(a) ==
    /\ act' = [act EXCEPT ![a] = Actuator_shutdown(@)]
    /\ last' = [op |-> "shutdown", id |-> a, ret |-> TRUE]
    /\ UNCHANGED <<sens, safetyMonitor_, ecuVars, sysVars>>

Call_setCommand(a, v) ==
    /\ act' = [act EXCEPT ![a] = Actuator_setCommand(@, v)]
    /\ last' = [op |-> "setCommand", id |-> a, value |-> v,
                ret |-> Actuator_setCommandResult(act[a], v)]
    /\ UNCHANGED <<sens, safetyMonitor_, ecuVars, sysVars>>

Call_setInterlock(a, b) ==
    /\ act' = [act EXCEPT ![a] = Actuator_setInterlock(@, b)]
    /\ last' = [op |-> "setInterlock", id |-> a, value |-> b]
    /\ UNCHANGED <<sens, safetyMonitor_, ecuVars, sysVars>>

Call_addLimit(c) ==
    /\ Len(safetyMonitor_.limits_) < MaxLimits
    /\ safetyMonitor_' =
           SafetyMonitor_addLimit(safetyMonitor_, c.name, Callable, c.min, c.max)
    /\ last' = [op |-> "addLimit", name |-> c.name, min |-> c.min, max |-> c.max]
    /\ UNCHANGED <<act, sens, ecuVars, sysVars>>

Call_monitorInitialize ==
    /\ safetyMonitor_' = SafetyMonitor_initialize(safetyMonitor_)
    /\ last' = [op |-> "monitorInitialize"]
    /\ UNCHANGED <<act, sens, ecuVars, sysVars>>

Call_evaluate(fnvals) ==
    LET w == SafetyMonitor_update(World, fnvals)
    IN  /\ safetyMonitor_' = w.mon
        /\ act' = w.act
        /\ sens' = w.sens
        /\ last' = [op |-> "evaluate", threw |-> w.threw, fnvals |-> fnvals,
                    sampled |-> w.sampled]
        /\ UNCHANGED <<ecuVars, sysVars>>

Call_monitorShutdown ==
    /\ act' = SafetyMonitor_shutdown(act, safetyMonitor_.controlledActuators_)
    /\ last' = [op |-> "monitorShutdown"]
    /\ UNCHANGED <<sens, safetyMonitor_, ecuVars, sysVars>>

ActuatorCalls(inputs) ==
    \/ \E a \in DOMAIN act : Call_initialize(a)
    \/ \E a \in DOMAIN act : Call_update(a)
    \/ \E a \in DOMAIN act : Call_shutdown(a)
    \/ \E a \in DOMAIN act, v \in inputs : Call_setCommand(a, v)
    \/ \E a \in DOMAIN act, b \in BOOLEAN : Call_setInterlock(a, b)

MonitorCalls(configs, outcomes) ==
    \/ \E c \in configs : Call_addLimit(c)
    \/ Call_monitorInitialize
    \/ \E fnvals \in [1..Len(safetyMonitor_.limits_) -> outcomes] :
           Call_evaluate(fnvals)
    \/ Call_monitorShutdown

\* actuators alone
InitActuator ==
    /\ \E lim \in MotorLimits :
           act = [a \in {"Motor", "Valve"} |->
                     IF a = "Motor" THEN MotorController(lim[1], lim[2])
                                    ELSE HydraulicValve]
    /\ sens = <<>>
    /\ safetyMonitor_ = SafetyMonitor
    /\ last = NoCall
    /\ InitNoECUs
    /\ InitNoSystem

NextActuator == ActuatorCalls(CmdInputs)

SpecActuator == InitActuator /\ [][NextActuator]_vars

\* the valve's update() keeps being called, as controlLoop() does on each tick
SpecActuatorFair == SpecActuator /\ WF_vars(Call_update("Valve"))

\* a SafetyMonitor with a thruster and a valve registered by addActuator
InitSafety ==
    /\ act = [a \in {"Motor", "Valve"} |->
                 IF a = "Motor" THEN ThrusterMotor ELSE HydraulicValve]
    /\ sens = <<>>
    /\ safetyMonitor_ =
           SafetyMonitor_addActuator(
               SafetyMonitor_addActuator(SafetyMonitor, "Motor"), "Valve")
    /\ last = NoCall
    /\ InitNoECUs
    /\ InitNoSystem

NextSafety ==
    \/ ActuatorCalls(SafetyCmdInputs)
    \/ MonitorCalls(LimitConfigs, SampleOutcomes)

SpecSafety == InitSafety /\ [][NextSafety]_vars

\* the same monitor called alone, a limit with min > max among the configurations
NextMonitor == MonitorCalls(LimitConfigs \cup {InvertedLimit}, SampleOutcomes)

SpecMonitor == InitSafety /\ [][NextMonitor]_vars

(***************************************************************************)
(* The ECUManager interface called in any order, against a clock           *)
(***************************************************************************)

MaxSeconds == 7

\* the instants at which calls are made, in milliseconds
EcuInstants ==
    {0, 5000, 5001, 5999, 6000} \cup {1000 * k : k \in 7..MaxSeconds}

\* the ids the callers of addECU use
HarnessECUs ==
    {SetupECUs[2], SetupECUs[3], [id |-> SetupECUs[3].id, type |-> SetupECUs[2].type]}

\* time passes between two calls
AdvanceClock(t) ==
    /\ t > now
    /\ now' = t
    /\ last' = [op |-> "clock"]
    /\ UNCHANGED <<ecuManager_, compVars, sysVars>>

Call_addECU(c) ==
    /\ ecuManager_' = ECUManager_addECU(ecuManager_, ECU(c.id, c.type, now))
    /\ last' = [op |-> "addECU", id |-> c.id]
    /\ UNCHANGED <<now, compVars, sysVars>>

Call_managerInitialize(link) ==
    /\ ecuManager_' = ECUManager_initialize(ecuManager_, link)
    /\ last' = [op |-> "managerInitialize", link |-> link,
                ret |-> ECUManager_initializeResult(ecuManager_, link)]
    /\ UNCHANGED <<now, compVars, sysVars>>

Call_managerUpdate ==
    /\ ecuManager_' = ECUManager_update(ecuManager_, now)
    /\ last' = [op |-> "managerUpdate",
                ret |-> ECUManager_updateResult(ecuManager_, now)]
    /\ UNCHANGED <<now, compVars, sysVars>>

Call_managerShutdown ==
    /\ ecuManager_' = ECUManager_shutdown(ecuManager_)
    /\ last' = [op |-> "managerShutdown", ret |-> TRUE]
    /\ UNCHANGED <<now, compVars, sysVars>>

\* getECU(id)->updateCommunicationTimestamp()
Call_updateCommunicationTimestamp(id) ==
    /\ ecuManager_' =
           [ecuManager_ EXCEPT !.ecus_[id] = ECU_updateCommunicationTimestamp(@, now)]
    /\ last' = [op |-> "updateCommunicationTimestamp", id |-> id]
    /\ UNCHANGED <<now, compVars, sysVars>>

InitECU ==
    /\ InitNoComponents
    /\ InitNoSystem
    /\ last = NoCall
    /\ ecuManager_ = ECUManager
    /\ now = 0

NextECU ==
    \/ \E t \in EcuInstants : AdvanceClock(t)
    \/ \E c \in HarnessECUs : Call_addECU(c)
    \/ \E link \in [DOMAIN ecuManager_.ecus_ -> LinkOutcomes] :
           Call_managerInitialize(link)
    \/ Call_managerUpdate
    \/ Call_managerShutdown
    \/ \E id \in DOMAIN ecuManager_.ecus_ : Call_updateCommunicationTimestamp(id)

SpecECU == InitECU /\ [][NextECU]_vars

(***************************************************************************)
(* The SafetyMonitor and the telemetry snapshot taken of it                *)
(***************************************************************************)

\* limits whose names are empty or need escaping
SnapshotLimitConfigs ==
    {[name |-> <<>>, min |-> FP(0), max |-> FP(100)],
     [name |-> <<"Max", "\"", "Temp">>, min |-> FP(-5), max |-> FP(50)]}

\* writeTelemetrySnapshot() runs; opened: whether the std::ofstream opened
Call_writeTelemetrySnapshot(opened) ==
    /\ IF opened
       THEN LET out == writeTelemetrySnapshot(safetyMonitor_, controlState_, sensors_,
                                              sens, actuators_, act, now)
            IN  telemetry' = out.file /\ sens' = out.sens
       ELSE UNCHANGED <<telemetry, sens>>
    /\ last' = [op |-> "writeTelemetrySnapshot", ret |-> opened]
    /\ UNCHANGED <<act, safetyMonitor_, ecuVars, ctlVars>>

InitSnapshot ==
    /\ InitNoComponents
    /\ last = NoCall
    /\ InitNoECUs
    /\ InitNoSystem

NextSnapshot ==
    \/ MonitorCalls(SnapshotLimitConfigs, {Returns(v) : v \in SampleValues})
    \/ \E opened \in BOOLEAN : Call_writeTelemetrySnapshot(opened)

SpecSnapshot == InitSnapshot /\ [][NextSnapshot]_vars

(***************************************************************************)
(* main.cpp: the assembled program                                         *)
(***************************************************************************)

\* the instants, in milliseconds, at which sleep_for(1 ms) returns
LastWake == 6200
WakeInstants == {1, 100, 200, LastWake, LastWake + loopPeriod_}

\* what the hardware placeholders deliver to a sensor's update()
HardwareReadings ==
    {[DepthSensor |-> FP(r[1]), WaterTemp |-> FP(r[2]), IMU |-> FP(0)] :
        r \in {<<0, 0>>, <<120, 0>>, <<0, 60>>}}

\* a message on a serial line
Message == <<1>>

\* what the links' hardware may deliver during one tick
Arrivals ==
    {[ttyACM0 |-> a[1], ttyACM1 |-> a[2], TelemetryLink |-> <<>>, Modbus |-> <<>>] :
        a \in {<<<<>>, <<>>>>, <<<<Message>>, <<Message>>>>,
               <<<<Message, Message>>, <<>>>>}}

\* main() has ended, or the process has
Terminated == {"exited", "crashed", "returned"}

\* ROVControlSystem system; g_system = &system;
Main_construct ==
    /\ pc = "main"
    /\ pc' = "configure"
    /\ g_system' = TRUE
    /\ systemRunning_' = FALSE
    /\ controlState_' = ControlState
    /\ safetyMonitor_' = SafetyMonitor
    /\ UNCHANGED <<act, sens, last, ecuVars, logger_, sensors_, actuators_,
                   commInterfaces_, comm, lastTime, counter, telemetry,
                   shutdownLog, tickLog>>

\* addSensor x3, addActuator x3, addCommunication x4, addSafetyLimit x2
Main_configure ==
    /\ pc = "configure"
    /\ pc' = "initialize"
    /\ sens' = [DepthSensor |-> PressureSensor, WaterTemp |-> TemperatureSensor,
                IMU |-> IMUSensor]
    /\ sensors_' = <<"DepthSensor", "WaterTemp", "IMU">>
    /\ act' = [VerticalThruster1 |-> ThrusterMotor,
               HorizontalThruster1 |-> ThrusterMotor,
               GripperValve |-> HydraulicValve]
    /\ actuators_' = <<"VerticalThruster1", "HorizontalThruster1", "GripperValve">>
    /\ comm' = [ttyACM0 |-> SerialInterface, ttyACM1 |-> SerialInterface,
                TelemetryLink |-> TelemetryUplink, Modbus |-> ModbusInterface]
    /\ commInterfaces_' = <<"ttyACM0", "ttyACM1", "TelemetryLink", "Modbus">>
    /\ safetyMonitor_' =
           SafetyMonitor_addLimit(
               SafetyMonitor_addLimit(safetyMonitor_, <<"MaxDepth">>,
                   [kind |-> "sensor", id |-> "DepthSensor"], FP(0), FP(100)),
               <<"MaxTemp">>, [kind |-> "sensor", id |-> "WaterTemp"], FP(-5), FP(50))
    /\ UNCHANGED <<last, ecuVars, g_system, logger_, systemRunning_, controlState_,
                   lastTime, counter, telemetry, shutdownLog, tickLog>>

\* initialize(): "Create logger first"
Init_logger(opened) ==
    /\ pc = "initialize"
    /\ pc' = "init_ecus"
    /\ logger_' = DataLogger_initialize(DataLogger, opened)
    /\ UNCHANGED <<compVars, last, ecuVars, g_system, systemRunning_, sensors_,
                   actuators_, commInterfaces_, comm, controlState_, lastTime,
                   counter, telemetry, shutdownLog, tickLog>>

\* an initialize() that goes on after ecuManager_->initialize() has failed
Init_ecus_ignoresFailure(link) ==
    /\ pc = "init_ecus"
    /\ LET m == setupECUs(ECUManager, SetupECUs, now)
       IN  /\ ecuManager_' = ECUManager_initialize(m, link)
           /\ pc' = "init_safety"
    /\ last' = [op |-> "managerInitialize", link |-> link,
                ret |-> \A id \in DOMAIN link : link[id]]
    /\ UNCHANGED <<compVars, now, g_system, logger_, systemRunning_, sensors_,
                   actuators_, commInterfaces_, comm, controlState_, lastTime,
                   counter, telemetry, shutdownLog, tickLog>>

\* initialize(): the ECUManager is made, setupECUs(), ecuManager_->initialize();
\* on failure initialize() returns false and main() returns 1
Init_ecus(link) ==
    /\ pc = "init_ecus"
    /\ LET m == setupECUs(ECUManager, SetupECUs, now)
       IN  /\ ecuManager_' = ECUManager_initialize(m, link)
           /\ pc' = IF ECUManager_initializeResult(m, link) THEN "init_safety"
                                                            ELSE "returned"
           /\ last' = [op |-> "managerInitialize", link |-> link,
                       ret |-> ECUManager_initializeResult(m, link)]
    /\ UNCHANGED <<compVars, now, g_system, logger_, systemRunning_, sensors_,
                   actuators_, commInterfaces_, comm, controlState_, lastTime,
                   counter, telemetry, shutdownLog, tickLog>>

\* initialize(): safetyMonitor_->initialize()
Init_safety ==
    /\ pc = "init_safety"
    /\ pc' = "init_sensors"
    /\ safetyMonitor_' = SafetyMonitor_initialize(
                             IF safetyMonitor_ = Null THEN SafetyMonitor
                                                      ELSE safetyMonitor_)
    /\ UNCHANGED <<act, sens, last, ecuVars, g_system, logger_, systemRunning_,
                   sensors_, actuators_, commInterfaces_, comm, controlState_,
                   lastTime, counter, telemetry, shutdownLog, tickLog>>

\* initialize(): "Initialize all sensors"
Init_sensors ==
    /\ pc = "init_sensors"
    /\ pc' = "init_actuators"
    /\ sens' = [n \in DOMAIN sens |->
           IF n \in Range(sensors_) THEN Sensor_initialize(sens[n]) ELSE sens[n]]
    /\ UNCHANGED <<act, safetyMonitor_, last, ecuVars, g_system, logger_,
                   systemRunning_, sensors_, actuators_, commInterfaces_, comm,
                   controlState_, lastTime, counter, telemetry, shutdownLog, tickLog>>

\* initialize(): "Initialize all actuators", each one added to the monitor
Init_actuators ==
    /\ pc = "init_actuators"
    /\ pc' = "init_comms"
    /\ act' = [n \in DOMAIN act |->
           IF n \in Range(actuators_) THEN Actuator_initialize(act[n]) ELSE act[n]]
    /\ safetyMonitor_' = addActuators(safetyMonitor_, actuators_)
    /\ UNCHANGED <<sens, last, ecuVars, g_system, logger_, systemRunning_, sensors_,
                   actuators_, commInterfaces_, comm, controlState_, lastTime,
                   counter, telemetry, shutdownLog, tickLog>>

\* initialize(): "Initialize communication", then return true
Init_comms ==
    /\ pc = "init_comms"
    /\ pc' = IF \A n \in Range(commInterfaces_) : Comm_initializeResult(comm[n])
             THEN "start" ELSE "returned"
    /\ comm' = [n \in DOMAIN comm |->
           IF n \in Range(commInterfaces_) THEN Comm_initialize(comm[n]) ELSE comm[n]]
    /\ UNCHANGED <<compVars, last, ecuVars, g_system, logger_, systemRunning_,
                   sensors_, actuators_, commInterfaces_, controlState_, lastTime,
                   counter, telemetry, shutdownLog, tickLog>>

\* system.start(): systemRunning_ = true; controlLoop() takes lastTime
Main_start ==
    /\ pc = "start"
    /\ pc' = "loop"
    /\ systemRunning_' = TRUE
    /\ lastTime' = now
    /\ UNCHANGED <<compVars, last, ecuVars, g_system, logger_, sensors_, actuators_,
                   commInterfaces_, comm, controlState_, counter, telemetry,
                   shutdownLog, tickLog>>

\* while (systemRunning_) { if (elapsed >= loopPeriod_) { lastTime = currentTime;
Loop_check ==
    /\ pc = "loop"
    /\ IF ~systemRunning_
       THEN pc' = "returned" /\ UNCHANGED <<lastTime, tickLog>>
       ELSE IF now - lastTime >= loopPeriod_
            THEN pc' = "tick_ecus" /\ lastTime' = now /\ tickLog' = <<>>
            ELSE pc' = "sleep" /\ UNCHANGED <<lastTime, tickLog>>
    /\ UNCHANGED <<compVars, last, ecuVars, g_system, logger_, systemRunning_,
                   sensors_, actuators_, commInterfaces_, comm, controlState_,
                   counter, telemetry, shutdownLog>>

\* the rest of the state a tick step leaves alone
tickFrame == <<last, now, g_system, logger_, systemRunning_, sensors_, actuators_,
               commInterfaces_, controlState_, lastTime, shutdownLog>>

\* "0. Update ECU health monitoring"
Tick_ecus ==
    /\ pc = "tick_ecus"
    /\ pc' = "tick_sensors"
    /\ ecuManager_' = ECUManager_update(ecuManager_, now)
    /\ tickLog' = Append(tickLog, "ecus")
    /\ UNCHANGED <<compVars, comm, counter, telemetry, tickFrame>>

\* "1. Read all sensors": update(), readValue(), ++counter for each
Tick_sensors(hw) ==
    /\ pc = "tick_sensors"
    /\ pc' = "tick_safety"
    /\ sens' = ReadAllSensors(sens, sensors_, hw)
    /\ counter' = counter + Len(sensors_)
    /\ last' = [op |-> "readSensors",
                logged |-> logComponentStatus(counter, sensors_, logger_)]
    /\ tickLog' = Append(tickLog, "sensors")
    /\ UNCHANGED <<act, safetyMonitor_, ecuManager_, comm, telemetry, now, g_system,
                   logger_, systemRunning_, sensors_, actuators_, commInterfaces_,
                   controlState_, lastTime, shutdownLog>>

\* "2. Check safety interlocks"
Tick_safety ==
    /\ pc = "tick_safety"
    /\ pc' = "tick_control"
    /\ LET w == SafetyMonitor_update(
                    World, [i \in 1..Len(safetyMonitor_.limits_) |-> Returns(0)])
       IN  /\ safetyMonitor_' = w.mon
           /\ act' = w.act
           /\ sens' = w.sens
    /\ tickLog' = Append(tickLog, "safety")
    /\ UNCHANGED <<ecuManager_, comm, counter, telemetry, tickFrame>>

\* "3. Run control algorithms"
Tick_control ==
    /\ pc = "tick_control"
    /\ pc' = "tick_actuators"
    /\ LET w == runControlAlgorithms(controlState_, World, sensors_, actuators_)
       IN  act' = w.act /\ sens' = w.sens
    /\ tickLog' = Append(tickLog, "control")
    /\ UNCHANGED <<safetyMonitor_, ecuManager_, comm, counter, telemetry, tickFrame>>

\* "4. Update actuators"
Tick_actuators ==
    /\ pc = "tick_actuators"
    /\ pc' = "tick_comms"
    /\ act' = [n \in DOMAIN act |->
           IF n \in Range(actuators_) THEN Actuator_update(act[n]) ELSE act[n]]
    /\ tickLog' = Append(tickLog, "actuators")
    /\ UNCHANGED <<sens, safetyMonitor_, ecuManager_, comm, counter, telemetry,
                   tickFrame>>

\* "5. Handle communication": comm->update(); processCommunication(comm);
\* arrived[n] is what link n's hardware delivers
Tick_comms(arrived) ==
    /\ pc = "tick_comms"
    /\ pc' = "tick_observe"
    /\ LET updated == [n \in DOMAIN comm |->
               IF n \in Range(commInterfaces_) THEN Comm_update(comm[n], arrived[n])
                                               ELSE comm[n]]
       IN  /\ comm' = [n \in DOMAIN comm |->
                  IF n \in Range(commInterfaces_) THEN processCommunication(updated[n])
                                                  ELSE updated[n]]
           /\ last' = [op |-> "processCommunication",
                       received |-> [n \in Range(commInterfaces_) |->
                                        Comm_receive(updated[n])]]
    /\ tickLog' = Append(tickLog, "comms")
    /\ UNCHANGED <<compVars, ecuManager_, counter, telemetry, now, g_system, logger_,
                   systemRunning_, sensors_, actuators_, commInterfaces_,
                   controlState_, lastTime, shutdownLog>>

\* "6. Update communication timestamps for ECUs"
Tick_observe ==
    /\ pc = "tick_observe"
    /\ pc' = "tick_telemetry"
    /\ ecuManager_' = updateECUCommunicationStatus(ecuManager_, commInterfaces_, now)
    /\ tickLog' = Append(tickLog, "observe")
    /\ UNCHANGED <<compVars, comm, counter, telemetry, tickFrame>>

\* "7. Publish telemetry snapshot": std::ofstream file(path, std::ios::trunc)
\* empties ./telemetry.json, or fails to open it and the function returns
Tick_telemetry(opened) ==
    /\ pc = "tick_telemetry"
    /\ IF opened
       THEN /\ pc' = "tick_write"
            /\ telemetry' = EmptyFile
            /\ UNCHANGED tickLog
       ELSE /\ pc' = "sleep"
            /\ tickLog' = Append(tickLog, "telemetry")
            /\ UNCHANGED telemetry
    /\ UNCHANGED <<compVars, ecuManager_, comm, counter, tickFrame>>

\* writeTelemetrySnapshot() after the open: the text is built, each sensor
\* read once more, then file << ss.str(); file.close()
Tick_write ==
    /\ pc = "tick_write"
    /\ pc' = "sleep"
    /\ LET out == writeTelemetrySnapshot(safetyMonitor_, controlState_, sensors_,
                                         sens, actuators_, act, now)
       IN  telemetry' = out.file /\ sens' = out.sens
    /\ tickLog' = Append(tickLog, "telemetry")
    /\ UNCHANGED <<act, safetyMonitor_, ecuManager_, comm, counter, tickFrame>>

\* std::this_thread::sleep_for(1 ms) returns at instant t
Loop_sleep(t) ==
    /\ pc = "sleep"
    /\ t > now
    /\ pc' = "loop"
    /\ now' = t
    /\ UNCHANGED <<compVars, last, ecuManager_, g_system, logger_, systemRunning_,
                   sensors_, actuators_, commInterfaces_, comm, controlState_,
                   lastTime, counter, telemetry, shutdownLog, tickLog>>

\* what a call through the null logger_ in stop() may do
NullLoggerOutcomes == {"crash at log", "crash at shutdown", "no crash"}

\* signalHandler(signum): SIGINT or SIGTERM is delivered while main() is at pc.
\* The handler runs on main's thread: stop(), if g_system is set, then exit().
\* Before initialize() has made the logger, stop() calls through a null
\* logger_: undefined behaviour, here a crash at either call or none.
Signal(ub) ==
    /\ pc \notin Terminated
    /\ LET w == [ecuManager_ |-> ecuManager_, act |-> act, sens |-> sens,
                 comm |-> comm, mon |-> safetyMonitor_, actuators_ |-> actuators_,
                 sensors_ |-> sensors_, commInterfaces_ |-> commInterfaces_]
           after == stop(w)
       IN  IF ~g_system
           THEN /\ pc' = "exited"
                /\ UNCHANGED <<act, sens, ecuManager_, comm, logger_, systemRunning_,
                               shutdownLog>>
           ELSE IF logger_ = Null /\ ub = "crash at log"
           THEN /\ pc' = "crashed"
                /\ systemRunning_' = FALSE
                /\ UNCHANGED <<act, sens, ecuManager_, comm, logger_, shutdownLog>>
           ELSE /\ systemRunning_' = FALSE
                /\ ecuManager_' = after.ecuManager_
                /\ act' = after.act
                /\ sens' = after.sens
                /\ comm' = after.comm
                /\ IF logger_ # Null
                   THEN /\ logger_' = DataLogger_shutdown(logger_)
                        /\ shutdownLog' = stopSteps(ecuManager_)
                        /\ pc' = "exited"
                   ELSE /\ logger_' = logger_
                        /\ shutdownLog' =
                               SubSeq(stopSteps(ecuManager_), 1,
                                      Len(stopSteps(ecuManager_)) - 1)
                        /\ pc' = IF ub = "crash at shutdown" THEN "crashed"
                                                             ELSE "exited"
    /\ UNCHANGED <<safetyMonitor_, last, now, g_system, sensors_, actuators_,
                   commInterfaces_, controlState_, lastTime, counter, telemetry,
                   tickLog>>

Init ==
    /\ act = <<>> /\ sens = <<>> /\ safetyMonitor_ = Null
    /\ last = NoCall
    /\ InitNoECUs
    /\ pc = "main" /\ g_system = FALSE /\ logger_ = Null /\ systemRunning_ = FALSE
    /\ sensors_ = <<>> /\ actuators_ = <<>> /\ commInterfaces_ = <<>> /\ comm = <<>>
    /\ controlState_ = ControlState /\ lastTime = 0 /\ counter = 0
    /\ telemetry = NoFile /\ shutdownLog = <<>> /\ tickLog = <<>>

Next ==
    \/ Main_construct
    \/ Main_configure
    \/ \E opened \in BOOLEAN : Init_logger(opened)
    \/ \E link \in [{SetupECUs[i].id : i \in 1..Len(SetupECUs)} -> LinkOutcomes] :
           Init_ecus(link)
    \/ Init_safety
    \/ Init_sensors
    \/ Init_actuators
    \/ Init_comms
    \/ Main_start
    \/ Loop_check
    \/ Tick_ecus
    \/ \E hw \in HardwareReadings : Tick_sensors(hw)
    \/ Tick_safety
    \/ Tick_control
    \/ Tick_actuators
    \/ \E arrived \in Arrivals : Tick_comms(arrived)
    \/ Tick_observe
    \/ \E opened \in BOOLEAN : Tick_telemetry(opened)
    \/ Tick_write
    \/ \E t \in WakeInstants : Loop_sleep(t)
    \/ \E ub \in NullLoggerOutcomes : Signal(ub)

Spec == Init /\ [][Next]_vars

\* processCommunication() with its "Parse and execute commands" step filled
\* in: data received on any link is a command that engages depth control with
\* a setpoint of 50
Tick_commsCommand(arrived) ==
    /\ pc = "tick_comms"
    /\ pc' = "tick_observe"
    /\ LET updated == [n \in DOMAIN comm |->
               IF n \in Range(commInterfaces_) THEN Comm_update(comm[n], arrived[n])
                                               ELSE comm[n]]
       IN  /\ comm' = [n \in DOMAIN comm |->
                  IF n \in Range(commInterfaces_) THEN processCommunication(updated[n])
                                                  ELSE updated[n]]
           /\ last' = [op |-> "processCommunication",
                       received |-> [n \in Range(commInterfaces_) |->
                                        Comm_receive(updated[n])]]
           /\ controlState_' =
                  IF \E n \in Range(commInterfaces_) : Comm_receive(updated[n]) # <<>>
                  THEN [controlState_ EXCEPT !.autoDepthControl = TRUE,
                                             !.depthSetpoint = FP(50)]
                  ELSE controlState_
    /\ tickLog' = Append(tickLog, "comms")
    /\ UNCHANGED <<compVars, ecuManager_, counter, telemetry, now, g_system, logger_,
                   systemRunning_, sensors_, actuators_, commInterfaces_,
                   lastTime, shutdownLog>>

NextAutoDepth ==
    \/ Main_construct
    \/ Main_configure
    \/ \E opened \in BOOLEAN : Init_logger(opened)
    \/ \E link \in [{SetupECUs[i].id : i \in 1..Len(SetupECUs)} -> LinkOutcomes] :
           Init_ecus(link)
    \/ Init_safety
    \/ Init_sensors
    \/ Init_actuators
    \/ Init_comms
    \/ Main_start
    \/ Loop_check
    \/ Tick_ecus
    \/ \E hw \in HardwareReadings : Tick_sensors(hw)
    \/ Tick_safety
    \/ Tick_control
    \/ Tick_actuators
    \/ \E arrived \in Arrivals : Tick_commsCommand(arrived)
    \/ Tick_observe
    \/ \E opened \in BOOLEAN : Tick_telemetry(opened)
    \/ Tick_write
    \/ \E t \in WakeInstants : Loop_sleep(t)
    \/ \E ub \in NullLoggerOutcomes : Signal(ub)

SpecAutoDepth == Init /\ [][NextAutoDepth]_vars

(***************************************************************************)
(* Properties                                                              *)
(***************************************************************************)

Registered == {safetyMonitor_.controlledActuators_[i] :
                   i \in 1..Len(safetyMonitor_.controlledActuators_)}

\* C1: when evaluate() (SafetyMonitor::update) has found a violated limit, then
\* on return isSafe() is false and every registered actuator's getCommand() is
\* zero, whatever state the actuator was in before the call.
C1_EvaluateZeroesEveryActuator ==
    (last.op = "evaluate" /\ ~isSystemSafe(safetyMonitor_))
        => \A a \in Registered : getCommand(act[a]) = 0

\* C2: whenever hasInterlock() is true, getCommand() is the neutral value 0,
\* whether or not update() has run since the flag was set.
C2_InterlockForcesZero ==
    \A a \in DOMAIN act : hasInterlock(act[a]) => getCommand(act[a]) = 0

\* the value in [lo, hi] nearest to v
Nearest(v, lo, hi) == CHOOSE c \in {v, lo, hi} :
                          /\ lo <= c /\ c <= hi
                          /\ (lo <= v /\ v <= hi) => c = v
                          /\ v < lo => c = lo
                          /\ v > hi => c = hi

\* C3 as stated: after setCommand(v) on an actuator that is not interlocked,
\* initialized or not, getCommand() = clamp(v, min, max).
C3_SetCommandClampsAlways ==
    (last.op = "setCommand" /\ ~hasInterlock(act[last.id]))
        => getCommand(act[last.id])
               = Nearest(last.value, ActuatorMin(act[last.id]), ActuatorMax(act[last.id]))

\* C3 amended: after setCommand(v) on an actuator that is not interlocked,
\* getCommand() = clamp(v, min, max) if the actuator is enabled (a
\* MotorController between initialize() and shutdown(); a HydraulicValve
\* always); on a disabled MotorController the call fails and the command
\* stays 0.
C3_SetCommandClampsWhenEnabled ==
    (last.op = "setCommand" /\ ~hasInterlock(act[last.id]))
        => IF ActuatorEnabled(act[last.id])
           THEN /\ last.ret
                /\ getCommand(act[last.id])
                       = Nearest(last.value, ActuatorMin(act[last.id]),
                                 ActuatorMax(act[last.id]))
           ELSE ~last.ret /\ getCommand(act[last.id]) = 0

\* a thruster given 150 reports 100; a valve given 150 reports 100
C3_Witness ==
    /\ last.op = "setCommand" /\ last.value = FP(150)
    /\ ~hasInterlock(act[last.id]) /\ ActuatorEnabled(act[last.id])
    /\ IsMotor(act[last.id])
    /\ act[last.id].minLimit_ = FP(-100)
    /\ getCommand(act[last.id]) = FP(100)

\* C9: lastViolation() is the empty string whenever isSafe() is true.
C9_SafeMeansNoViolationText ==
    isSystemSafe(safetyMonitor_) => getLastViolation(safetyMonitor_) = <<>>

\* the ECUs the manager holds
RegisteredECUs == {ecuManager_.ecus_[id] : id \in DOMAIN ecuManager_.ecus_}

\* C4: tick(now) takes an Online ECU to Degraded whenever now - lastCommunication
\* is strictly greater than 5 seconds, 5.001 s included: after a tick no ECU is
\* still Online with more than 5000 ms elapsed since its last communication.
C4_DegradedBeyondFiveSeconds ==
    last.op = "managerUpdate"
        => \A e \in RegisteredECUs :
               now - e.lastCommunication_ > 1000 * WatchdogSeconds
                   => getECUStatus(e) # "ONLINE"

\* C5: in every reachable state of the supervisor allOnline() is false if and
\* only if at least one registered ECU has a status other than Online.
C5_AllOnlineIffEveryECUOnline ==
    ~areAllECUsOnline(ecuManager_)
        <=> \E e \in RegisteredECUs : getECUStatus(e) # "ONLINE"

\* the steps of a complete stop()
ShutdownOrder == <<"ecus", "actuators", "sensors", "comms", "safety", "logger">>

\* C6: cancellation is cooperative: a stop request that arrives while a tick is
\* in flight lets the tick finish, and only then does shutdown begin; whenever
\* a shutdown step has run, the latest tick has run all of its steps.
C6_ShutdownOnlyBetweenTicks ==
    shutdownLog # <<>> => tickLog \in {<<>>, TickOrder}

\* C7: whenever a termination signal is delivered after the handlers are
\* installed, initialize() begun or not, the process ends only after the
\* shutdown steps have run in the order ECU supervisor, actuators, sensors,
\* comm links, safety engine, logger.
C7_SignalRunsFullShutdown ==
    pc \in {"exited", "crashed"} => shutdownLog = ShutdownOrder

\* C8: every tick of the control loop runs all of its steps once and in order:
\* no tick is ever left with only some of its steps run.
C8_EveryTickRunsAllSteps ==
    pc \notin {"tick_ecus", "tick_sensors", "tick_safety", "tick_control",
               "tick_actuators", "tick_comms", "tick_observe", "tick_telemetry",
               "tick_write"}
        => tickLog \in {<<>>, TickOrder}

\* a std::string with no characters
IsEmptyString(str) == \A i \in 1..Len(str) : str[i] = ""

\* C10: in every reachable state of the safety engine, and in every published
\* snapshot, safe = false implies that the violation string is non-empty.
C10_UnsafeHasViolationText ==
    /\ ~isSystemSafe(safetyMonitor_)
           => ~IsEmptyString(getLastViolation(safetyMonitor_))
    /\ (telemetry # NoFile /\ ~telemetry.system.safe)
           => ~IsEmptyString(telemetry.system.violation)

\* a snapshot published while a limit with an empty name is violated
C10_Witness ==
    /\ telemetry # NoFile
    /\ ~telemetry.system.safe
    /\ telemetry.system.violation = <<" out of range: ", "120.000000">>
    /\ ~isSystemSafe(safetyMonitor_)

\* the outcome of limit i's callable in the latest evaluate() is a value within
\* the limit's [min, max]
InRange(i) ==
    /\ last.fnvals[i].kind = "value"
    /\ last.fnvals[i].value >= safetyMonitor_.limits_[i].minValue
    /\ last.fnvals[i].value <= safetyMonitor_.limits_[i].maxValue

\* the first limit, in registration order, whose outcome is not in range; 0 if none
FirstNotInRange ==
    IF \A i \in 1..Len(safetyMonitor_.limits_) : InRange(i) THEN 0
    ELSE CHOOSE i \in 1..Len(safetyMonitor_.limits_) :
             ~InRange(i) /\ \A j \in 1..(i - 1) : InRange(j)

\* C11: if a limit's sample() accessor fails during evaluate(), the limit is
\* treated as violated: the call returns normally with isSafe() false, that
\* limit active and every registered actuator commanded to zero.
C11_FailedSampleIsViolation ==
    (/\ last.op = "evaluate"
     /\ FirstNotInRange # 0
     /\ last.fnvals[FirstNotInRange].kind = "throw")
        => /\ ~last.threw
           /\ ~isSystemSafe(safetyMonitor_)
           /\ safetyMonitor_.limits_[FirstNotInRange].isActive
           /\ \A a \in Registered : getCommand(act[a]) = 0

\* C12: evaluate() inspects limits in registration order and stops at the first
\* violated one: lastViolation names it with its value, no later limit is
\* sampled, and every later limit keeps the active flag it had before the call.
C12_FirstViolationWins ==
    [][(/\ last'.op = "evaluate"
        /\ ~last'.threw
        /\ FirstNotInRange' # 0)
          => LET k   == FirstNotInRange'
                 mon == safetyMonitor_'
             IN  /\ ~isSystemSafe(mon)
                 /\ mon.limits_[k].isActive
                 /\ getLastViolation(mon)
                        = mon.limits_[k].name \o <<" out of range: ">>
                              \o to_string(last'.fnvals[k].value)
                 /\ last'.sampled = [i \in 1..k |-> i]
                 /\ \A j \in (k + 1)..Len(mon.limits_) :
                        mon.limits_[j].isActive = safetyMonitor_.limits_[j].isActive
                 /\ \A j \in 1..(k - 1) : ~mon.limits_[j].isActive]_vars

\* the first of two limits is violated; the second, in range now, is still
\* active from an earlier call
C12_Witness ==
    /\ last.op = "evaluate" /\ ~last.threw
    /\ Len(safetyMonitor_.limits_) = 2
    /\ FirstNotInRange = 1
    /\ InRange(2)
    /\ safetyMonitor_.limits_[2].isActive
    /\ last.sampled = <<1>>

\* C13: when evaluate() finds no limit out of range (zero limits included),
\* then on return every limit has active = false and isSafe() is true,
\* whatever the flags and the safety state were before the call.
C13_NoViolationClearsAll ==
    (last.op = "evaluate" /\ FirstNotInRange = 0)
        => /\ isSystemSafe(safetyMonitor_)
           /\ ~last.threw
           /\ \A i \in 1..Len(safetyMonitor_.limits_) :
                  ~safetyMonitor_.limits_[i].isActive

\* two limits, both in range, after an earlier call had found a violation
C13_Witness ==
    /\ last.op = "evaluate"
    /\ Len(safetyMonitor_.limits_) = 2
    /\ FirstNotInRange = 0
    /\ getLastViolation(safetyMonitor_) # <<>>
    /\ isSystemSafe(safetyMonitor_)

\* C14: addLimit fails and leaves the limits unchanged when the name is
\* already registered or when min > max.
C14_AddLimitRejectsBadConfig ==
    [][(/\ last'.op = "addLimit"
        /\ \/ last'.max < last'.min
           \/ \E i \in 1..Len(safetyMonitor_.limits_) :
                  safetyMonitor_.limits_[i].name = last'.name)
          => safetyMonitor_'.limits_ = safetyMonitor_.limits_]_vars

\* C15: adding an ECU whose id is already registered fails, and the ECU
\* registered before remains the one a lookup of that id returns.
C15_AddRejectsDuplicateId ==
    [][(last'.op = "addECU" /\ last'.id \in DOMAIN ecuManager_.ecus_)
          => ecuManager_'.ecus_[last'.id] = ecuManager_.ecus_[last'.id]]_vars

\* the status changes an ECU may make other than by shutdown()
AllowedTransitions ==
    {<<"OFFLINE", "INITIALIZING">>, <<"INITIALIZING", "ONLINE">>,
     <<"INITIALIZING", "FAULT">>, <<"ONLINE", "DEGRADED">>, <<"DEGRADED", "ONLINE">>}

\* the statuses ECU e passes through in a call of operation op that ends in e2
StatusPath(op, e, e2) ==
    IF op = "managerInitialize"
    THEN <<getECUStatus(e), "INITIALIZING", getECUStatus(e2)>>
    ELSE <<getECUStatus(e), getECUStatus(e2)>>

\* C16: every status change of an ECU, under any sequence of initialize, tick,
\* observeCommunication and shutdown, is one of Offline->Initializing,
\* Initializing->Online, Initializing->Fault, Online->Degraded,
\* Degraded->Online, or any->Offline by shutdown; a new ECU is Offline and
\* initialize() leaves no state other than Offline.
C16_OnlyAllowedTransitions ==
    [][\A id \in DOMAIN ecuManager_'.ecus_ :
          IF id \notin DOMAIN ecuManager_.ecus_ \/ (last'.op = "addECU" /\ last'.id = id)
          THEN getECUStatus(ecuManager_'.ecus_[id]) = "OFFLINE"
          ELSE LET path == StatusPath(last'.op, ecuManager_.ecus_[id],
                                      ecuManager_'.ecus_[id])
               IN  \A k \in 1..(Len(path) - 1) :
                       \/ path[k] = path[k + 1]
                       \/ <<path[k], path[k + 1]>> \in AllowedTransitions
                       \/ last'.op = "managerShutdown" /\ path[k + 1] = "OFFLINE"]_vars

\* C17: observeCommunication(now) sets lastCommunication to now and moves a
\* Degraded ECU back to Online, and no other operation, tick included, does
\* so; a tick at the same instant leaves the ECU Online.
C17_OnlyObservationRestoresOnline ==
    [][\A id \in DOMAIN ecuManager_.ecus_ \cap DOMAIN ecuManager_'.ecus_ :
          LET e  == ecuManager_.ecus_[id]
              e2 == ecuManager_'.ecus_[id]
              observed == last'.op = "updateCommunicationTimestamp" /\ last'.id = id
          IN  /\ observed
                  => /\ e2.lastCommunication_ = now
                     /\ getECUStatus(e) = "DEGRADED" => getECUStatus(e2) = "ONLINE"
              /\ (getECUStatus(e) = "DEGRADED" /\ getECUStatus(e2) = "ONLINE")
                  => observed
              /\ (/\ last'.op = "managerUpdate"
                  /\ getECUStatus(e) = "ONLINE"
                  /\ e.lastCommunication_ = now)
                  => getECUStatus(e2) = "ONLINE"]_vars

\* C18: an ECU in Fault or Offline keeps its status (and its watchdog flag)
\* under any sequence of tick and observeCommunication; after shutdown() every
\* ECU is Offline with its watchdog disarmed.
C18_FaultAndOfflineAreSticky ==
    [][\A id \in DOMAIN ecuManager_.ecus_ \cap DOMAIN ecuManager_'.ecus_ :
          LET e  == ecuManager_.ecus_[id]
              e2 == ecuManager_'.ecus_[id]
          IN  /\ (/\ last'.op \in {"managerUpdate", "updateCommunicationTimestamp",
                                   "clock"}
                  /\ getECUStatus(e) \in {"FAULT", "OFFLINE"})
                  => /\ getECUStatus(e2) = getECUStatus(e)
                     /\ e2.watchdogActive_ = e.watchdogActive_
              /\ last'.op = "managerShutdown"
                  => getECUStatus(e2) = "OFFLINE" /\ ~e2.watchdogActive_]_vars

\* a communication has just been observed on an ECU that is in Fault, well
\* after the watchdog time, while another ECU is Offline
C18_Witness ==
    /\ last.op = "updateCommunicationTimestamp"
    /\ getECUStatus(ecuManager_.ecus_[last.id]) = "FAULT"
    /\ ecuManager_.ecus_[last.id].lastCommunication_ = now
    /\ now > 1000 * WatchdogSeconds
    /\ \E e \in RegisteredECUs :
           getECUStatus(e) = "OFFLINE" /\ e.lastCommunication_ < now

\* C19: the supervisor's initialize() calls initialize() on every ECU, also
\* after an earlier one has failed (each ECU ends Online or Fault as its own
\* link answered), and returns success exactly when all of them succeeded.
C19_InitializeVisitsEveryECU ==
    last.op = "managerInitialize"
        => /\ \A id \in DOMAIN ecuManager_.ecus_ :
                  /\ getECUStatus(ecuManager_.ecus_[id])
                         = IF last.link[id] THEN "ONLINE" ELSE "FAULT"
                  /\ ecuManager_.ecus_[id].communicationErrors_ = 0
           /\ last.ret = (\A id \in DOMAIN ecuManager_.ecus_ : last.link[id])

\* the first ECU in key order failed, a later one was initialized all the same
C19_Witness ==
    /\ last.op = "managerInitialize"
    /\ ~last.ret
    /\ \E f, g \in DOMAIN ecuManager_.ecus_ :
           /\ KeyOrder(f) < KeyOrder(g)
           /\ ~last.link[f] /\ last.link[g]
           /\ getECUStatus(ecuManager_.ecus_[f]) = "FAULT"
           /\ getECUStatus(ecuManager_.ecus_[g]) = "ONLINE"

\* C20: if link establishment fails for any ECU during startup, that ECU ends
\* in Fault, the supervisor's and the system's initialize() report failure, no
\* sensor, actuator or comm link is initialized afterwards and the process
\* never enters the control loop.
C20_LinkFailureAbortsStartup ==
    (last.op = "managerInitialize" /\ \E id \in DOMAIN last.link : ~last.link[id])
        => /\ \A id \in DOMAIN last.link :
                  ~last.link[id] => getECUStatus(ecuManager_.ecus_[id]) = "FAULT"
           /\ ~last.ret
           /\ pc = "returned"
           /\ \A n \in Range(sensors_) : ~isHealthy(sens[n])
           /\ \A n \in Range(actuators_) : IsMotor(act[n]) => ~act[n].enabled_
           /\ safetyMonitor_.controlledActuators_ = <<>>
           /\ \A n \in Range(commInterfaces_) : ~comm[n].connected_
           /\ ~systemRunning_
           /\ tickLog = <<>>
           /\ telemetry = NoFile

\* startup has stopped with one ECU in Fault and the others Online
C20_Witness ==
    /\ pc = "returned"
    /\ last.op = "managerInitialize"
    /\ ~last.ret
    /\ \E f, g \in DOMAIN last.link :
           /\ getECUStatus(ecuManager_.ecus_[f]) = "FAULT"
           /\ getECUStatus(ecuManager_.ecus_[g]) = "ONLINE"
    /\ sensors_ # <<>>

\* C21: byType(type) returns exactly the registered ECUs of that type in the
\* order in which they were added: an ECU added under a new id comes last in
\* the list of its type, and the other lists are as they were.
C21_ByTypeKeepsInsertionOrder ==
    [][(last'.op = "addECU" /\ last'.id \notin DOMAIN ecuManager_.ecus_)
          => LET added == ecuManager_'.ecus_[last'.id]
             IN  \A i \in 1..Len(SetupECUs) :
                     getECUsByType(ecuManager_', SetupECUs[i].type)
                         = IF added.type_ = SetupECUs[i].type
                           THEN Append(getECUsByType(ecuManager_, SetupECUs[i].type),
                                       added)
                           ELSE getECUsByType(ecuManager_, SetupECUs[i].type)]_vars

\* C25: for every actuator with limits [min, max], in every reachable state
\* (after construction and after any sequence of initialize, setCommand,
\* setInterlock, update and shutdown) min <= getCommand() <= max.
C25_CommandAlwaysWithinLimits ==
    \A a \in DOMAIN act :
        /\ ActuatorMin(act[a]) <= getCommand(act[a])
        /\ getCommand(act[a]) <= ActuatorMax(act[a])

\* actuator a is disabled: a MotorController says so itself; a HydraulicValve
\* keeps no flag, and is disabled for certain before any call and right after
\* its shutdown()
KnownDisabled(a) ==
    IF IsMotor(act[a]) THEN ~act[a].enabled_
    ELSE last.op = "none" \/ (last.op = "shutdown" /\ last.id = a)

\* actuator a is enabled for certain
KnownEnabled(a) ==
    IF IsMotor(act[a]) THEN act[a].enabled_
    ELSE last.op = "initialize" /\ last.id = a

\* C26: for every actuator type, setCommand(v) returns failure and leaves the
\* commanded value unchanged whenever the actuator is disabled (not yet
\* initialized, or shut down) or its interlock is active, and returns success
\* otherwise.
C26_SetCommandFailsWhenDisabled ==
    [][\A a \in DOMAIN act :
          (last'.op = "setCommand" /\ last'.id = a)
              => /\ (KnownDisabled(a) \/ hasInterlock(act[a]))
                     => ~last'.ret /\ getCommand(act'[a]) = getCommand(act[a])
                 /\ (KnownEnabled(a) /\ ~hasInterlock(act[a])) => last'.ret]_vars

SnapshotFields == {"timestamp", "system", "control", "sensors", "actuators"}

\* C22: a concurrent reader of the telemetry artifact never observes an empty
\* or partially written snapshot: whenever ./telemetry.json exists, during and
\* between publishes, it holds one complete snapshot.
C22_ReaderSeesCompleteSnapshot ==
    telemetry # NoFile => DOMAIN telemetry = SnapshotFields

\* what sensor s holds from its latest hardware update()
Reading(s) ==
    IF s.kind = "PressureSensor" THEN s.currentValue_ + s.calibrationOffset_
    ELSE IF s.kind = "TemperatureSensor" THEN s.currentValue_
    ELSE s.data_.yaw

\* C23: every sensor value in the snapshot published in tick k is derived only
\* from readings taken during tick k, the moving-average pressure sensor
\* included: it is the reading the sensor took in that tick.
C23_SnapshotValuesFromThisTick ==
    (/\ pc = "sleep"
     /\ tickLog = TickOrder
     /\ DOMAIN telemetry = SnapshotFields
     /\ telemetry.timestamp = getIsoTimestamp(now))
        => \A i \in 1..Len(sensors_) :
               telemetry.sensors[i].value = ostream_double(Reading(sens[sensors_[i]]))

\* C24: evaluate() changes nothing except the engine's own flag, violation
\* string and active flags and the registered actuators' commanded values: the
\* state of every sensor and of every ECU is the same after the call as before.
C24_EvaluateTouchesOnlyEngineAndActuators ==
    [][(pc = "tick_safety" /\ pc' = "tick_control")
          => /\ sens' = sens
             /\ ecuManager_' = ecuManager_
             /\ comm' = comm
             /\ controlState_' = controlState_]_vars

\* C27: in the observe step of a tick observeCommunication(now) is invoked for
\* an ECU only if a communication link produced inbound traffic during that
\* tick: with every link silent no ECU's lastCommunication is refreshed.
C27_ObserveOnlyAfterTraffic ==
    [][(pc = "tick_observe" /\ pc' = "tick_telemetry")
          => \A id \in DOMAIN ecuManager_.ecus_ :
                 ecuManager_'.ecus_[id].lastCommunication_ = now
                     => \E n \in DOMAIN last.received : last.received[n] # <<>>]_vars

\* C28: the sensor-status log is decimated by tick: each sensor's status is
\* logged on every 10th tick of the loop and on no other tick.
C28_SensorLogEveryTenthTick ==
    [][(/\ pc = "tick_sensors" /\ pc' = "tick_safety"
        /\ logger_.isLogging_
        /\ sensors_ # <<>>)
          => last'.logged = IF (counter' \div Len(sensors_)) % 10 = 0
                            THEN Range(sensors_) ELSE {}]_vars

\* C29: in the communication step of a tick each link's inbound data is
\* drained: after the step the link's inbound queue is empty, even if more
\* than one message was pending.
C29_InboundQueueDrained ==
    [][(pc = "tick_comms" /\ pc' = "tick_observe")
          => \A n \in Range(commInterfaces_) :
                 comm'[n].kind = "SerialInterface" => comm'[n].rxQueue_ = <<>>]_vars

\* C31: at the end of any tick whose safety evaluation found a violation,
\* every registered actuator's commanded value is zero: the control-algorithm
\* step and the actuator update that run after evaluate() never re-command an
\* actuator to a non-zero value, also with autoDepth control enabled and a
\* non-zero depth error.
C31_UnsafeTickEndsWithZeroCommands ==
    (/\ pc = "sleep"
     /\ tickLog = TickOrder
     /\ ~isSystemSafe(safetyMonitor_))
        => \A n \in Registered : getCommand(act[n]) = 0

C33_NoDemotionRightAfterInitialize ==
    [][(/\ last.op = "managerInitialize"
        /\ last.ret
        /\ last'.op = "managerUpdate")
          => \A id \in DOMAIN ecuManager_'.ecus_ :
                 getECUStatus(ecuManager_'.ecus_[id]) # "DEGRADED"]_vars

\* C34: in the assembled system only ECU02 and ECU03 ever have
\* observeCommunication invoked by the control loop; ECU01 and ECU04..ECU07
\* keep the lastCommunication of their construction (instant 0), are Degraded
\* once the ECU step of a tick has run at least 6 whole seconds after it and
\* stay Degraded, so allOnline() is false at every such tick until shutdown.
C34_UnobservedECUsDegrade ==
    ecuManager_ # Null
        => \A id \in DOMAIN ecuManager_.ecus_ \ {"ECU02", "ECU03"} :
               LET e == ecuManager_.ecus_[id]
               IN  /\ e.lastCommunication_ = 0
                   /\ (/\ pc \notin Terminated
                       /\ "ecus" \in Range(tickLog)
                       /\ duration_cast_seconds(lastTime - e.lastCommunication_) >= 6)
                          => /\ getECUStatus(e) = "DEGRADED"
                             /\ ~areAllECUsOnline(ecuManager_)

\* the tick after the one that degraded ECU01 has ended: ECU01 is still
\* Degraded with one error counted, ECU02 was observed in this tick
C34_Witness ==
    /\ pc = "sleep"
    /\ tickLog = TickOrder
    /\ lastTime = LastWake + loopPeriod_
    /\ getECUStatus(ecuManager_.ecus_["ECU01"]) = "DEGRADED"
    /\ ecuManager_.ecus_["ECU01"].communicationErrors_ = 1
    /\ ecuManager_.ecus_["ECU02"].lastCommunication_ = now
    /\ getECUStatus(ecuManager_.ecus_["ECU02"]) = "ONLINE"

\* C35: in every reachable state of an ECU, after any sequence of initialize
\* (link succeeding or failing), tick, observeCommunication and shutdown, the
\* watchdog is armed exactly when the status is Online or Degraded.
C35_WatchdogArmedIffWatched ==
    \A e \in RegisteredECUs :
        e.watchdogActive_ <=> getECUStatus(e) \in {"ONLINE", "DEGRADED"}

\* C36: in every reachable state of the safety engine, after any sequence of
\* addLimit, initialize and evaluate, isSafe() is true exactly when no
\* registered limit has active == true.
C36_SafeIffNoActiveLimit ==
    isSystemSafe(safetyMonitor_)
        <=> \A i \in 1..Len(safetyMonitor_.limits_) :
                ~safetyMonitor_.limits_[i].isActive

\* C37: within one tick the value of a sensor sampled by evaluate() equals the
\* value read for it later in the tick (control step, snapshot): repeated
\* readValue() calls with no hardware update in between return the same
\* value.  MaxDepth, the first limit, is sampled by every evaluate(); the
\* value compared with it is the one the next readValue() of the tick returns.
C37_SameValueWithinTick ==
    [][(/\ pc = "tick_safety" /\ pc' = "tick_control"
        /\ safetyMonitor_.limits_ # <<>>)
          => LET id == safetyMonitor_.limits_[1].getValue.id
             IN  Sensor_readValue(sens[id]) = Sensor_readValue(sens'[id])]_vars

\* C38: for a HydraulicValve with no interlock and a target held fixed by
\* setCommand, each update() moves position toward target by
\* min(5, |target - position|) and position stays within [0,100]; with the
\* target held for good (and no initialize() of the valve), after finitely
\* many updates position equals target and stays there.
C38_ValveConvergesAtRate ==
    /\ [][(/\ last'.op = "update" /\ last'.id = "Valve"
           /\ ~hasInterlock(act["Valve"]))
             => LET v    == act["Valve"]
                    d    == Abs(v.targetPosition_ - v.position_)
                    step == IF d < FP(ValveRate) THEN d ELSE FP(ValveRate)
                IN  /\ act'["Valve"].position_ =
                           IF v.targetPosition_ >= v.position_
                           THEN v.position_ + step ELSE v.position_ - step
                    /\ act'["Valve"].targetPosition_ = v.targetPosition_
                    /\ act'["Valve"].position_ >= FP(0)
                    /\ act'["Valve"].position_ <= FP(100)]_vars
    /\ \A c \in {clamp(v, FP(0), FP(100)) : v \in CmdInputs} :
           <>[](/\ act["Valve"].targetPosition_ = c
                /\ ~hasInterlock(act["Valve"])
                /\ ~(last.op = "initialize" /\ last.id = "Valve"))
               => <>[](getFeedback(act["Valve"]) = c)

\* an update() has brought the valve onto a target of 52, which is not a
\* whole number of 5% moves away from any end stop
C38_Witness ==
    /\ last.op = "update" /\ last.id = "Valve" /\ last.ret
    /\ act["Valve"].targetPosition_ = FP(52)
    /\ act["Valve"].position_ = FP(52)

\* C39: while a HydraulicValve's interlock is active, update() forces target
\* to 0 but leaves position (feedback) unchanged, so an interlocked open valve
\* stays at its opening while the interlock remains set; only shutdown() (or
\* clearing the interlock) changes the position.
C39_InterlockedValveHoldsPosition ==
    [][(hasInterlock(act["Valve"]) /\ hasInterlock(act'["Valve"]))
          => /\ (last'.op = "update" /\ last'.id = "Valve")
                  => /\ getCommand(act'["Valve"]) = 0
                     /\ getFeedback(act'["Valve"]) = getFeedback(act["Valve"])
             /\ getFeedback(act'["Valve"]) # getFeedback(act["Valve"])
                  => (last'.op = "shutdown" /\ last'.id = "Valve")]_vars

\* C39, amended: while the interlock is active update() forces target to 0
\* and leaves position unchanged; the position of an interlocked valve is
\* changed only by shutdown() and by initialize(), both of which set it to 0.
C39_HoldsExceptShutdownOrInitialize ==
    [][(hasInterlock(act["Valve"]) /\ hasInterlock(act'["Valve"]))
          => /\ (last'.op = "update" /\ last'.id = "Valve")
                  => /\ getCommand(act'["Valve"]) = 0
                     /\ getFeedback(act'["Valve"]) = getFeedback(act["Valve"])
             /\ getFeedback(act'["Valve"]) # getFeedback(act["Valve"])
                  => /\ last'.op \in {"shutdown", "initialize"}
                     /\ last'.id = "Valve"
                     /\ getFeedback(act'["Valve"]) = 0]_vars

\* an update() of an interlocked valve that stands open at 52: it reports
\* failure, the target is 0 and the valve is still open
C39_Witness ==
    /\ last.op = "update" /\ last.id = "Valve" /\ ~last.ret
    /\ hasInterlock(act["Valve"])
    /\ getCommand(act["Valve"]) = 0
    /\ getFeedback(act["Valve"]) = FP(52)

\* the number of communication steps controlLoop() has completed: the ticks
\* begun (one ++counter per sensor and tick), less the one under way
CommStepsDone ==
    IF sensors_ = <<>> THEN 0
    ELSE (counter \div Len(sensors_))
             - (IF "sensors" \in Range(tickLog) /\ "comms" \notin Range(tickLog)
                THEN 1 ELSE 0)

\* C40: for a connected SerialInterface every send() appends one entry to the
\* outbound queue and no operation (update, receive, shutdown) removes one, so
\* after n ticks the outbound queue of each serial link holds exactly n
\* entries; send() on a disconnected link returns false and leaves the queue
\* unchanged.
C40_OutboundQueueGrowsPerTick ==
    \A n \in Range(commInterfaces_) :
        comm[n].kind = "SerialInterface"
            => /\ Len(comm[n].txQueue_) = CommStepsDone
               /\ \A i \in 1..Len(comm[n].txQueue_) :
                      comm[n].txQueue_[i] = buildTelemetryPacket
               /\ Comm_sendResult(comm[n], buildTelemetryPacket) = comm[n].connected_
               /\ Comm_send(comm[n], buildTelemetryPacket) =
                      IF comm[n].connected_
                      THEN [comm[n] EXCEPT !.txQueue_ =
                                               Append(@, buildTelemetryPacket)]
                      ELSE comm[n]

\* four ticks have ended and both serial links, still connected, hold four
\* packets, although messages arrived and were received on the way
C40_Witness ==
    /\ pc = "sleep"
    /\ tickLog = TickOrder
    /\ counter = 4 * Len(sensors_)
    /\ \A n \in {"ttyACM0", "ttyACM1"} :
           comm[n].connected_ /\ Len(comm[n].txQueue_) = 4
    /\ last.op = "processCommunication"
    /\ last.received["ttyACM0"] # <<>>

====
